---- MODULE Spec2Model ----
(***************************************************************************)
(* The blog data model of modules/blog/models.py: Category, Article,       *)
(* Comment, Rating and ViewCount rows held by a relational store, the      *)
(* referential actions their foreign keys declare (CASCADE, PROTECT,       *)
(* SET_DEFAULT, SET_NULL), the uniqueness constraints, Article.save,       *)
(* Article.get_sum_rating, the two ArticleManager query policies and the   *)
(* default ordering of Article.                                            *)
(*                                                                         *)
(* The store is a conventional relational database: it enforces foreign    *)
(* keys and uniqueness constraints, and a statement that violates one is   *)
(* rolled back as a whole.  Fields no property depends on (descriptions,   *)
(* thumbnail, tags, time_update, comment content and status, the           *)
(* timestamps of Comment, Rating and ViewCount) are left out of the rows.  *)
(***************************************************************************)
EXTENDS Integers, FiniteSets, Sequences, TLC

\* ------------------------------------------------------------------ bounds
MaxUsers == 2
MaxCategories == 3
MaxArticles == 2
MaxComments == 3
MaxRatings == 3
MaxViews == 2
MaxClock == 2
MaxProcs == 2
MaxRows == 5

\* ------------------------------------------------------- program constants
\* null=True: the value of an empty nullable reference
NULL == 0
\* default=1 of Article.author
DefaultUser == 1

UserIds == 1..MaxUsers
CategoryIds == 1..MaxCategories
ArticleIds == 1..MaxArticles
CommentIds == 1..MaxComments
RatingIds == 1..MaxRatings
ViewIds == 1..MaxViews
Procs == 1..MaxProcs

\* STATUS_OPTIONS
STATUS_OPTIONS == {"published", "draft"}
\* choices of Rating.value
RatingValues == {1, -1}
\* addresses a request can come from (GenericIPAddressField)
Ips == {"1.2.3.4", "5.6.7.8", "9.9.9.9"}
\* titles an editor can type (CharField)
Titles == {"A", "a"}

VARIABLES users, categories, articles, comments, ratings, views, clock, subs, last

vars == <<users, categories, articles, comments, ratings, views, clock, subs, last>>

\* ----------------------------------------------------------------- tables
Put(f, k, v) == [x \in DOMAIN f \cup {k} |-> IF x = k THEN v ELSE f[x]]

Drop(f, S) == [x \in DOMAIN f \ S |-> f[x]]

\* the id the store gives a new row: the smallest one not in use
NewId(f, ids) == CHOOSE i \in ids \ DOMAIN f : \A j \in ids \ DOMAIN f : i <= j

\* what an operation reports: the error it raised ("none" when it succeeded;
\* "UniqueViolation" and "ForeignKeyViolation" are the two IntegrityErrors),
\* the number of rows Model.delete() removed and the number it updated
Outcome(op, id, err, deleted, updated, derived) ==
    [op |-> op, id |-> id, err |-> err, deleted |-> deleted, updated |-> updated,
     derived |-> derived]

\* -------------------------------------------------------------- slugs
\* django.utils.text.slugify on the titles of the model: lower-cases
slugify(title) == CASE title = "A" -> "a" [] title = "a" -> "a"

SlugSuffixes == 1..MaxArticles

\* every slug a row can hold: "" (blank=True), a slugified title, or one with
\* a collision suffix
Slugs == {""} \cup {slugify(t) : t \in Titles}
              \cup {slugify(t) \o "-" \o ToString(k) : t \in Titles, k \in SlugSuffixes}

StoredSlugs == {articles[a].slug : a \in DOMAIN articles}

\* unique_slugify(instance, title): a URL-safe slug derived from the title that
\* no stored article has; the title's slug itself when it is free
unique_slugify(title) ==
    IF slugify(title) \notin StoredSlugs
    THEN {slugify(title)}
    ELSE {s \in {slugify(title) \o "-" \o ToString(k) : k \in SlugSuffixes} :
            s \notin StoredSlugs}

\* variant of SlugForSave without the "if not self.slug" branch
SlugForSaveKeepsBlank(slug, title) == {slug}

\* Article.save, lines 141-142: the slug the row is written with
SlugForSave(slug, title) == IF slug = "" THEN unique_slugify(title) ELSE {slug}

\* slug = SlugField(unique=True): no other row holds the slug
SlugUnique(a, slug) == \A b \in DOMAIN articles \ {a} : articles[b].slug # slug

\* the foreign keys of an Article row point at stored rows
ArticleRefsOk(row, us, cats) ==
    /\ row.author \in us
    /\ row.updater \in us \cup {NULL}
    /\ row.category \in DOMAIN cats

\* the IntegrityError the store raises for an Article row it refuses: the
\* constraint that failed
SaveError(a, row) ==
    IF SlugUnique(a, row.slug) THEN "ForeignKeyViolation" ELSE "UniqueViolation"

\* --------------------------------------------------------- Article.save
\* Model.save of a new Article: time_create is set once (auto_now_add)
CreateArticle(title, slug, status, fixed, author, updater, category) ==
    /\ DOMAIN articles # ArticleIds
    /\ LET a == NewId(articles, ArticleIds) IN
       \E s \in SlugForSave(slug, title) :
          LET row == [title |-> title, slug |-> s, status |-> status,
                      time_create |-> clock, author |-> author, updater |-> updater,
                      fixed |-> fixed, category |-> category]
          IN  IF SlugUnique(a, s) /\ ArticleRefsOk(row, users, categories)
              THEN /\ articles' = Put(articles, a, row)
                   /\ last' = Outcome("Article.save", a, "none", 0, 0, slug = "")
              ELSE /\ articles' = articles
                   /\ last' = Outcome("Article.save", a, SaveError(a, row), 0, 0, slug = "")
    /\ UNCHANGED <<users, categories, comments, ratings, views, clock, subs>>

\* Model.save of a stored Article whose editor changed title, slug, status,
\* pinned flag and updater; time_create keeps its value
UpdateArticle(a, title, slug, status, fixed, updater) ==
    /\ a \in DOMAIN articles
    /\ \E s \in SlugForSave(slug, title) :
          LET row == [articles[a] EXCEPT !.title = title, !.slug = s, !.status = status,
                                         !.fixed = fixed, !.updater = updater]
          IN  IF SlugUnique(a, s) /\ ArticleRefsOk(row, users, categories)
              THEN /\ articles' = Put(articles, a, row)
                   /\ last' = Outcome("Article.save", a, "none", 0, 1, slug = "")
              ELSE /\ articles' = articles
                   /\ last' = Outcome("Article.save", a, SaveError(a, row), 0, 0, slug = "")
    /\ UNCHANGED <<users, categories, comments, ratings, views, clock, subs>>

\* time passes between two requests
Tick ==
    /\ clock < MaxClock
    /\ clock' = clock + 1
    /\ last' = Outcome("Tick", NULL, "none", 0, 0, FALSE)
    /\ UNCHANGED <<users, categories, articles, comments, ratings, views, subs>>

\* ------------------------------------------------------------ creations
CreateUser(u) ==
    /\ u \in UserIds \ users
    /\ users' = users \cup {u}
    /\ last' = Outcome("User.save", u, "none", 0, 0, FALSE)
    /\ UNCHANGED <<categories, articles, comments, ratings, views, clock, subs>>

\* Category.parent: null or a stored category
CreateCategory(parent) ==
    /\ DOMAIN categories # CategoryIds
    /\ parent \in DOMAIN categories \cup {NULL}
    /\ LET c == NewId(categories, CategoryIds) IN
         /\ categories' = Put(categories, c, [parent |-> parent])
         /\ last' = Outcome("Category.save", c, "none", 0, 0, FALSE)
    /\ UNCHANGED <<users, articles, comments, ratings, views, clock, subs>>

\* Comment.article, Comment.author and Comment.parent are three independent
\* foreign keys: nothing ties a reply's article to its parent's article
CreateComment(article, author, parent) ==
    /\ DOMAIN comments # CommentIds
    /\ article \in DOMAIN articles
    /\ author \in users
    /\ parent \in DOMAIN comments \cup {NULL}
    /\ LET c == NewId(comments, CommentIds) IN
         /\ comments' = Put(comments, c, [article |-> article, author |-> author,
                                          parent |-> parent])
         /\ last' = Outcome("Comment.save", c, "none", 0, 0, FALSE)
    /\ UNCHANGED <<users, categories, articles, ratings, views, clock, subs>>

CreateViewCount(article, ip) ==
    /\ DOMAIN views # ViewIds
    /\ article \in DOMAIN articles
    /\ LET v == NewId(views, ViewIds) IN
         /\ views' = Put(views, v, [article |-> article, ip_address |-> ip])
         /\ last' = Outcome("ViewCount.save", v, "none", 0, 0, FALSE)
    /\ UNCHANGED <<users, categories, articles, comments, ratings, clock, subs>>

\* ----------------------------------------------------------------- Rating
\* variant of RatingPairFree with unique_together = ('article', 'user')
RatingPairFreePerUser(r, article, user, ip) ==
    \A q \in DOMAIN ratings \ {r} :
        ~(ratings[q].article = article /\ ratings[q].user = user)

\* unique_together = ('article', 'ip_address'): no other row holds the pair
RatingPairFree(r, article, user, ip) ==
    \A q \in DOMAIN ratings \ {r} :
        ~(ratings[q].article = article /\ ratings[q].ip_address = ip)

\* the foreign keys of a Rating row point at stored rows
RatingRefsOk(row) ==
    /\ row.article \in DOMAIN articles
    /\ row.user \in users \cup {NULL}

\* the INSERT or UPDATE of a Rating row passes the store's constraints
RatingRowOk(r, row) ==
    /\ RatingRefsOk(row)
    /\ RatingPairFree(r, row.article, row.user, row.ip_address)

\* the IntegrityError the store raises for a Rating row it refuses
RatingError(row) ==
    IF RatingRefsOk(row) THEN "UniqueViolation" ELSE "ForeignKeyViolation"

CreateRating(article, user, value, ip) ==
    /\ DOMAIN ratings # RatingIds
    /\ LET r == NewId(ratings, RatingIds)
           row == [article |-> article, user |-> user, value |-> value,
                   ip_address |-> ip]
       IN  IF RatingRowOk(r, row)
           THEN /\ ratings' = Put(ratings, r, row)
                /\ last' = Outcome("Rating.save", r, "none", 0, 0, FALSE)
           ELSE /\ ratings' = ratings
                /\ last' = Outcome("Rating.save", r, RatingError(row), 0, 0, FALSE)
    /\ UNCHANGED <<users, categories, articles, comments, views, clock, subs>>

\* Model.save of a stored Rating whose article, value or address was changed
UpdateRating(r, article, value, ip) ==
    /\ r \in DOMAIN ratings
    /\ LET row == [ratings[r] EXCEPT !.article = article, !.value = value,
                                     !.ip_address = ip]
       IN  IF RatingRowOk(r, row)
           THEN /\ ratings' = Put(ratings, r, row)
                /\ last' = Outcome("Rating.update", r, "none", 0, 1, FALSE)
           ELSE /\ ratings' = ratings
                /\ last' = Outcome("Rating.update", r, RatingError(row), 0, 0, FALSE)
    /\ UNCHANGED <<users, categories, articles, comments, views, clock, subs>>

DeleteRating(r) ==
    /\ r \in DOMAIN ratings
    /\ ratings' = Drop(ratings, {r})
    /\ last' = Outcome("Rating.delete", r, "none", 1, 0, FALSE)
    /\ UNCHANGED <<users, categories, articles, comments, views, clock, subs>>

\* Article.get_sum_rating: sum([rating.value for rating in self.ratings.all()])
RECURSIVE SumValues(_)
SumValues(rows) ==
    IF rows = {} THEN 0
    ELSE LET r == CHOOSE x \in rows : TRUE IN ratings[r].value + SumValues(rows \ {r})

\* self.ratings.all(): related_name='ratings' of Rating.article
RelatedRatings(a) == {r \in DOMAIN ratings : ratings[r].article = a}

\* variant of get_sum_rating that sums over Rating.objects.all()
get_sum_rating_all_rows(a) == SumValues(DOMAIN ratings)

\* sum over the ratings of the article
get_sum_rating(a) == SumValues(RelatedRatings(a))

\* -------------------------------------------------------------- deletions
\* on_delete=CASCADE of Comment.parent: the replies of the collected comments,
\* and theirs
RECURSIVE CommentCascade(_)
CommentCascade(S) ==
    LET more == {c \in DOMAIN comments : comments[c].parent \in S}
    IN  IF more \subseteq S THEN S ELSE CommentCascade(S \cup more)

\* on_delete=CASCADE of Category.parent: the descendants of the collected
\* categories
RECURSIVE CategoryCascade(_)
CategoryCascade(S) ==
    LET more == {c \in DOMAIN categories : categories[c].parent \in S}
    IN  IF more \subseteq S THEN S ELSE CategoryCascade(S \cup more)

\* variant of ProtectedBy that looks at the articles of c alone
ProtectedByDirect(c) == {a \in DOMAIN articles : articles[a].category = c}

\* on_delete=PROTECT of Article.category: the articles that block the deletion
\* of category c, which collects c and its descendants

ProtectedBy(c) ==
    {a \in DOMAIN articles : articles[a].category \in CategoryCascade({c})}

DeleteCategory(c) ==
    /\ c \in DOMAIN categories
    /\ IF ProtectedBy(c) # {}
       THEN /\ categories' = categories
            /\ last' = Outcome("Category.delete", c, "ProtectedError", 0, 0, FALSE)
       ELSE /\ categories' = Drop(categories, CategoryCascade({c}))
            /\ last' = Outcome("Category.delete", c, "none",
                               Cardinality(CategoryCascade({c})), 0, FALSE)
    /\ UNCHANGED <<users, articles, comments, ratings, views, clock, subs>>

\* on_delete=CASCADE of Comment.article, then of Comment.parent
CollectedComments(a) ==
    CommentCascade({c \in DOMAIN comments : comments[c].article = a})

\* on_delete=CASCADE of Rating.article
CollectedRatings(a) == {r \in DOMAIN ratings : ratings[r].article = a}

\* variant of CollectedViews with on_delete=DO_NOTHING
CollectedViewsNone(a) == {}

\* on_delete=CASCADE of ViewCount.article

CollectedViews(a) == {v \in DOMAIN views : views[v].article = a}

DeleteArticle(a) ==
    /\ a \in DOMAIN articles
    /\ articles' = Drop(articles, {a})
    /\ comments' = Drop(comments, CollectedComments(a))
    /\ ratings' = Drop(ratings, CollectedRatings(a))
    /\ views' = Drop(views, CollectedViews(a))
    /\ last' = Outcome("Article.delete", a, "none",
                       1 + Cardinality(CollectedComments(a))
                         + Cardinality(CollectedRatings(a))
                         + Cardinality(CollectedViews(a)), 0, FALSE)
    /\ UNCHANGED <<users, categories, clock, subs>>

DeleteComment(c) ==
    /\ c \in DOMAIN comments
    /\ comments' = Drop(comments, CommentCascade({c}))
    /\ last' = Outcome("Comment.delete", c, "none",
                       Cardinality(CommentCascade({c})), 0, FALSE)
    /\ UNCHANGED <<users, categories, articles, ratings, views, clock, subs>>

DeleteViewCount(v) ==
    /\ v \in DOMAIN views
    /\ views' = Drop(views, {v})
    /\ last' = Outcome("ViewCount.delete", v, "none", 1, 0, FALSE)
    /\ UNCHANGED <<users, categories, articles, comments, ratings, clock, subs>>

\* on_delete=SET_DEFAULT, default=1 of Article.author
AuthorAfterDelete(row, u) == IF row.author = u THEN DefaultUser ELSE row.author

\* variant of UpdaterAfterDelete with on_delete=DO_NOTHING
UpdaterKept(row, u) == row.updater

\* on_delete=SET_NULL of Article.updater

UpdaterAfterDelete(row, u) == IF row.updater = u THEN NULL ELSE row.updater

\* the article rows after the field updates the deletion of user u collects
ArticlesAfterUser(u) ==
    [a \in DOMAIN articles |->
        [articles[a] EXCEPT !.author = AuthorAfterDelete(articles[a], u),
                            !.updater = UpdaterAfterDelete(articles[a], u)]]

\* on_delete=CASCADE of Comment.author, then of Comment.parent
UserComments(u) ==
    CommentCascade({c \in DOMAIN comments : comments[c].author = u})

\* on_delete=CASCADE of Rating.user
UserRatings(u) == {r \in DOMAIN ratings : ratings[r].user = u}

\* The deletion of a user: the collected field updates and deletions run in one
\* transaction, which the store rolls back when an author it wrote refers to
\* no remaining user (the default user is the one deleted, or does not exist).
DeleteUser(u) ==
    /\ u \in users
    /\ IF \A a \in DOMAIN articles :
             ArticleRefsOk(ArticlesAfterUser(u)[a], users \ {u}, categories)
       THEN /\ users' = users \ {u}
            /\ articles' = ArticlesAfterUser(u)
            /\ comments' = Drop(comments, UserComments(u))
            /\ ratings' = Drop(ratings, UserRatings(u))
            /\ last' = Outcome("User.delete", u, "none",
                               1 + Cardinality(UserComments(u))
                                 + Cardinality(UserRatings(u)),
                               Cardinality({a \in DOMAIN articles :
                                   articles[a].author = u \/ articles[a].updater = u}),
                               FALSE)
       ELSE /\ UNCHANGED <<users, articles, comments, ratings>>
            /\ last' = Outcome("User.delete", u, "ForeignKeyViolation", 0, 0, FALSE)
    /\ UNCHANGED <<categories, views, clock, subs>>

\* ------------------------------------------------------------ behaviours
NoOutcome == Outcome("none", NULL, "none", 0, 0, FALSE)

IdleSubs == [p \in Procs |-> [pc |-> "idle", article |-> NULL, user |-> NULL,
                              value |-> 1, ip_address |-> "1.2.3.4", free |-> FALSE]]

\* the slug an editor types for the next article: one no stored article has
TypedSlug ==
    LET a == NewId(articles, ArticleIds)
    IN  IF a = 1 THEN "a" ELSE "a-" \o ToString(a - 1)

\* an empty store, but for the users and categories given
InitWith(us, cats) ==
    /\ users = us
    /\ categories = cats
    /\ articles = <<>>
    /\ comments = <<>>
    /\ ratings = <<>>
    /\ views = <<>>
    /\ clock = 0
    /\ subs = IdleSubs
    /\ last = NoOutcome

OneRootCategory == [c \in {1} |-> [parent |-> NULL]]

\* categories and the articles filed under them
InitCategory == InitWith({DefaultUser}, <<>>)

NextCategory ==
    \/ \E p \in CategoryIds \cup {NULL} : CreateCategory(p)
    \/ \E c \in CategoryIds : DeleteCategory(c)
    \/ \E c \in CategoryIds :
          CreateArticle("A", TypedSlug, "published", FALSE, DefaultUser, NULL, c)
    \/ \E a \in ArticleIds : DeleteArticle(a)

SpecCategory == InitCategory /\ [][NextCategory]_vars

\* ------------------------------------------------------------------- C1
\* the chain of categories from d up to its root, d included
RECURSIVE CategoryPath(_)
CategoryPath(d) ==
    IF d = NULL THEN {} ELSE {d} \cup CategoryPath(categories[d].parent)

\* c and its descendants, transitively
Subtree(c) == {d \in DOMAIN categories : c \in CategoryPath(d)}

Succeeded(op, id) == last'.op = op /\ last'.id = id /\ last'.err = "none"

Attempted(op, id) == last'.op = op /\ last'.id = id

\* C1 as stated: the deletion of category c raises a protection error and
\* removes no row whenever an article references c itself, and otherwise
\* succeeds and removes c with all its descendants.
C1_AsStated ==
    [][\A c \in DOMAIN categories :
          Attempted("Category.delete", c) =>
             IF \E a \in DOMAIN articles : articles[a].category = c
             THEN /\ last'.err = "ProtectedError"
                  /\ UNCHANGED <<categories, articles>>
             ELSE /\ last'.err = "none"
                  /\ categories' = Drop(categories, Subtree(c))
                  /\ UNCHANGED articles]_vars

\* C1, amended: the deletion of category c raises a protection error and
\* removes no row whenever an article references c or one of its descendants;
\* when no article references c or a descendant, it succeeds and removes c
\* together with all its descendants, transitively, and nothing else.
C1_ProtectThroughSubtree ==
    [][\A c \in DOMAIN categories :
          Attempted("Category.delete", c) =>
             IF \E a \in DOMAIN articles : articles[a].category \in Subtree(c)
             THEN /\ last'.err = "ProtectedError"
                  /\ UNCHANGED <<users, categories, articles, comments, ratings, views>>
             ELSE /\ last'.err = "none"
                  /\ categories' = Drop(categories, Subtree(c))
                  /\ last'.deleted = Cardinality(Subtree(c))
                  /\ UNCHANGED <<users, articles, comments, ratings, views>>]_vars

\* a category was deleted together with a child and a grandchild
C1_Witness ==
    /\ last.op = "Category.delete"
    /\ last.err = "none"
    /\ last.deleted = 3

\* ----------------------------------------------------------- C5: cascade
\* articles with their comments, replies, ratings and views
InitCascade == InitWith({DefaultUser}, OneRootCategory)

NextCascade ==
    \/ CreateArticle("A", TypedSlug, "published", FALSE, DefaultUser, NULL, 1)
    \/ \E a \in ArticleIds : DeleteArticle(a)
    \/ \E a \in ArticleIds, p \in CommentIds \cup {NULL} :
          CreateComment(a, DefaultUser, p)
    \/ \E c \in CommentIds : DeleteComment(c)
    \/ \E a \in ArticleIds : CreateRating(a, NULL, 1, "1.2.3.4")
    \/ \E a \in ArticleIds : CreateViewCount(a, "1.2.3.4")
    \/ \E v \in ViewIds : DeleteViewCount(v)

SpecCascade == InitCascade /\ [][NextCascade]_vars

\* C5 as stated: the deletion of article a removes every comment, rating and
\* view whose article is a, and no comment, rating or view of another article.
C5_AsStated ==
    [][\A a \in DOMAIN articles :
          Succeeded("Article.delete", a) =>
             /\ comments' = Drop(comments, {c \in DOMAIN comments : comments[c].article = a})
             /\ ratings' = Drop(ratings, {r \in DOMAIN ratings : ratings[r].article = a})
             /\ views' = Drop(views, {v \in DOMAIN views : views[v].article = a})]_vars

\* -------------------------------------------------------------- C8: users
\* the rows of the store, users included
Rows ==
    Cardinality(users) + Cardinality(DOMAIN categories) + Cardinality(DOMAIN articles)
      + Cardinality(DOMAIN comments) + Cardinality(DOMAIN ratings)
      + Cardinality(DOMAIN views)

InitUser == InitWith({}, OneRootCategory)

NextUser ==
    \/ \E u \in UserIds : CreateUser(u)
    \/ \E u \in UserIds : DeleteUser(u)
    \/ \E st \in STATUS_OPTIONS, au \in UserIds, up \in UserIds \cup {NULL} :
          CreateArticle("A", TypedSlug, st, FALSE, au, up, 1)
    \/ \E a \in ArticleIds : DeleteArticle(a)

SpecUser == InitUser /\ [][NextUser]_vars

\* the article rows the deletion of user u is to leave: the author of u's
\* articles is the default user, the updater of the articles u updated is null
Reassigned(u) ==
    [a \in DOMAIN articles |->
        [articles[a] EXCEPT !.author = IF @ = u THEN DefaultUser ELSE @,
                            !.updater = IF @ = u THEN NULL ELSE @]]

\* C8 as stated: the deletion of any user, the default user included, removes
\* the user and no article, sets the author of the user's articles to the
\* default user and the updater of the articles the user updated to null, and
\* changes no other article field.
C8_AsStated ==
    [][\A u \in users :
          Attempted("User.delete", u) =>
             /\ u \notin users'
             /\ articles' = Reassigned(u)]_vars

\* the deletion of u would leave an article whose author is no stored user
LeavesNoAuthor(u) ==
    \E a \in DOMAIN articles :
        articles[a].author = u /\ (u = DefaultUser \/ DefaultUser \notin users)

\* C8, amended: the deletion of a user never deletes an article.  When it
\* succeeds, the author of the user's articles is the default user, the updater
\* of the articles the user updated is null and no other article field has
\* changed.  It is rejected with an integrity error, changing nothing, exactly
\* when the user authors an article and is the default user itself (or no
\* default user is stored).
C8_FallbackOrReject ==
    [][\A u \in users :
          Attempted("User.delete", u) =>
             /\ DOMAIN articles' = DOMAIN articles
             /\ IF LeavesNoAuthor(u)
                THEN /\ last'.err = "ForeignKeyViolation"
                     /\ UNCHANGED <<users, categories, articles, comments, ratings, views>>
                ELSE /\ last'.err = "none"
                     /\ users' = users \ {u}
                     /\ articles' = Reassigned(u)]_vars

\* the default user, who had updated an article and wrote none, was deleted:
\* the article stays, its updater null
C8_Witness ==
    /\ last.op = "User.delete"
    /\ last.id = DefaultUser
    /\ last.err = "none"
    /\ last.updated >= 1
    /\ \E a \in DOMAIN articles : articles[a].updater = NULL

\* ------------------------------------------------- C10: the whole store
Init == InitWith({}, <<>>)

Next ==
    \/ \E u \in UserIds : Rows < MaxRows /\ CreateUser(u)
    \/ \E u \in UserIds : DeleteUser(u)
    \/ \E p \in CategoryIds \cup {NULL} : Rows < MaxRows /\ CreateCategory(p)
    \/ \E c \in CategoryIds : DeleteCategory(c)
    \/ \E au \in UserIds, c \in CategoryIds :
          Rows < MaxRows /\ CreateArticle("A", TypedSlug, "published", FALSE, au, NULL, c)
    \/ \E a \in ArticleIds : DeleteArticle(a)
    \/ \E a \in ArticleIds, au \in UserIds, p \in CommentIds \cup {NULL} :
          Rows < MaxRows /\ CreateComment(a, au, p)
    \/ \E c \in CommentIds : DeleteComment(c)
    \/ \E a \in ArticleIds : Rows < MaxRows /\ CreateRating(a, NULL, 1, "1.2.3.4")
    \/ \E r \in RatingIds : DeleteRating(r)
    \/ \E a \in ArticleIds : Rows < MaxRows /\ CreateViewCount(a, "1.2.3.4")
    \/ \E v \in ViewIds : DeleteViewCount(v)

Spec == Init /\ [][Next]_vars

NoDanglingReference ==
    /\ \A a \in DOMAIN articles :
          /\ articles[a].category \in DOMAIN categories
          /\ articles[a].author \in users
    /\ \A c \in DOMAIN comments :
          /\ comments[c].article \in DOMAIN articles
          /\ comments[c].author \in users
          /\ comments[c].parent # NULL => comments[c].parent \in DOMAIN comments
    /\ \A r \in DOMAIN ratings : ratings[r].article \in DOMAIN articles
    /\ \A v \in DOMAIN views : views[v].article \in DOMAIN articles
    /\ \A c \in DOMAIN categories :
          categories[c].parent # NULL => categories[c].parent \in DOMAIN categories

Deletions ==
    {"User.delete", "Category.delete", "Article.delete", "Comment.delete",
     "Rating.delete", "ViewCount.delete"}

\* C10: after every operation no reference dangles (the category and author of
\* every article, the article, author and parent of every comment, the article
\* of every rating and view and the parent of every category are stored rows),
\* and a deletion that is rejected leaves the whole store unchanged.
C10_ReferentialIntegrity ==
    [][/\ NoDanglingReference'
       /\ (last'.op \in Deletions /\ last'.err # "none") =>
             UNCHANGED <<users, categories, articles, comments, ratings, views>>]_vars

\* a user was deleted together with a comment, while an article the user wrote
\* stays, now with the default user as its author
C10_Witness ==
    /\ last.op = "User.delete"
    /\ last.err = "none"
    /\ last.deleted >= 2
    /\ last.updated >= 1
    /\ DOMAIN articles # {}

\* ------------------------------------------------------ C3, C9: ratings
InitRating == InitWith({DefaultUser}, OneRootCategory)

NextRating ==
    \/ Rows < MaxRows
         /\ CreateArticle("A", TypedSlug, "published", FALSE, DefaultUser, NULL, 1)
    \/ \E a \in ArticleIds : DeleteArticle(a)
    \/ \E a \in ArticleIds, u \in {NULL, DefaultUser}, v \in RatingValues, ip \in Ips :
          Rows < MaxRows /\ CreateRating(a, u, v, ip)
    \/ \E r \in RatingIds, a \in ArticleIds, v \in RatingValues, ip \in Ips :
          UpdateRating(r, a, v, ip)
    \/ \E r \in RatingIds : DeleteRating(r)

SpecRating == InitRating /\ [][NextRating]_vars

\* two published articles and the ratings they collect
TwoArticles ==
    [a \in {1, 2} |->
        [title |-> "A", slug |-> IF a = 1 THEN "a" ELSE "a-1", status |-> "published",
         time_create |-> 0, author |-> DefaultUser, updater |-> NULL, fixed |-> FALSE,
         category |-> 1]]

InitSum ==
    /\ users = {DefaultUser}
    /\ categories = OneRootCategory
    /\ articles = TwoArticles
    /\ comments = <<>>
    /\ ratings = <<>>
    /\ views = <<>>
    /\ clock = 0
    /\ subs = IdleSubs
    /\ last = NoOutcome

NextSum ==
    \/ \E a \in ArticleIds, v \in RatingValues, ip \in Ips : CreateRating(a, NULL, v, ip)
    \/ \E r \in DOMAIN ratings, v \in RatingValues :
          UpdateRating(r, ratings[r].article, v, ratings[r].ip_address)
    \/ \E r \in RatingIds : DeleteRating(r)
    \/ \E a \in ArticleIds : DeleteArticle(a)

SpecSum == InitSum /\ [][NextSum]_vars

AtMostOneRatingPerPair ==
    \A r, q \in DOMAIN ratings :
        (ratings[r].article = ratings[q].article
           /\ ratings[r].ip_address = ratings[q].ip_address) => r = q

\* C3: after every creation, update and deletion of a rating and every deletion
\* of an article, no two rating rows share (article, ip_address); a rating save
\* that is rejected leaves the rating rows as they were, and one that succeeds
\* changes no other row.
C3_OneRatingPerArticleAndIp ==
    [][/\ AtMostOneRatingPerPair'
       /\ (last'.op \in {"Rating.save", "Rating.update"} /\ last'.err # "none") =>
             ratings' = ratings
       /\ (last'.op \in {"Rating.save", "Rating.update"} /\ last'.err = "none") =>
             \A q \in DOMAIN ratings \ {last'.id} :
                 q \in DOMAIN ratings' /\ ratings'[q] = ratings[q]]_vars

\* a second rating for a pair that has a row was refused
C3_Witness ==
    /\ last.op = "Rating.save"
    /\ last.err = "UniqueViolation"
    /\ DOMAIN ratings # {}

Likes(a) == {r \in DOMAIN ratings : ratings[r].article = a /\ ratings[r].value = 1}

Dislikes(a) == {r \in DOMAIN ratings : ratings[r].article = a /\ ratings[r].value = -1}

\* C9: in every state, get_sum_rating of every article is the number of its +1
\* ratings minus the number of its -1 ratings (0 when it has none).
C9_SumIsLikesMinusDislikes ==
    \A a \in DOMAIN articles :
        get_sum_rating(a) = Cardinality(Likes(a)) - Cardinality(Dislikes(a))

\* after a value change an article has the ratings +1, +1, -1 and the sum 1
C9_Witness ==
    /\ last.op = "Rating.update"
    /\ last.err = "none"
    /\ \E a \in DOMAIN articles :
          /\ Cardinality(Likes(a)) = 2
          /\ Cardinality(Dislikes(a)) = 1
          /\ get_sum_rating(a) = 1

\* --------------------------------------------- C4, C6: saving and listing
\* ArticleManager: get_queryset() and the calls chained on it, as the set of
\* rows each returns
get_queryset == DOMAIN articles

\* select_related and prefetch_related load related rows; the rows of the
\* queryset stay the same
select_related(qs) == qs

prefetch_related(qs) == qs

\* variant of filter_status that keeps every row
filter_status_any(qs, st) == qs

\* .filter(status=...)

filter_status(qs, st) == {a \in qs : articles[a].status = st}

\* ArticleManager.all
ArticleManager_all ==
    filter_status(prefetch_related(select_related(get_queryset)), "published")

\* ArticleManager.detail
ArticleManager_detail ==
    filter_status(prefetch_related(select_related(get_queryset)), "published")

InitArticle == InitWith({DefaultUser}, OneRootCategory)

NextArticle ==
    \/ \E t \in Titles, sl \in Slugs, st \in STATUS_OPTIONS :
          CreateArticle(t, sl, st, FALSE, DefaultUser, NULL, 1)
    \/ \E a \in ArticleIds, t \in Titles, sl \in Slugs, st \in STATUS_OPTIONS :
          UpdateArticle(a, t, sl, st, FALSE, NULL)
    \/ \E a \in ArticleIds : DeleteArticle(a)

SpecArticle == InitArticle /\ [][NextArticle]_vars

\* C4: after every save, no stored article has an empty slug and no two stored
\* articles share a slug; so an article saved with an empty slug is stored with
\* a non-empty slug that differs from the slug of every other article.
C4_SlugNonEmptyAndUnique ==
    \A a \in DOMAIN articles :
        /\ articles[a].slug # ""
        /\ \A b \in DOMAIN articles \ {a} : articles[b].slug # articles[a].slug

\* an article was saved with an empty slug while another article held the slug
\* of its title, and is stored under a different, derived slug
C4_Witness ==
    /\ last.op = "Article.save"
    /\ last.err = "none"
    /\ last.derived
    /\ last.id \in DOMAIN articles
    /\ articles[last.id].slug # slugify(articles[last.id].title)
    /\ \E b \in DOMAIN articles \ {last.id} :
          articles[b].slug = slugify(articles[last.id].title)

\* C6: in every state, all() and detail() hold every stored article whose
\* status is published and no other row: an article whose status is draft is
\* in neither.
C6_OnlyPublishedListed ==
    /\ ArticleManager_all \subseteq DOMAIN articles
    /\ ArticleManager_detail \subseteq DOMAIN articles
    /\ \A a \in DOMAIN articles :
          /\ articles[a].status = "published" =>
                a \in ArticleManager_all /\ a \in ArticleManager_detail
          /\ articles[a].status = "draft" =>
                a \notin ArticleManager_all /\ a \notin ArticleManager_detail

\* an article was saved as a draft and is in neither result, while a published
\* article is in both
C6_Witness ==
    /\ last.op = "Article.save"
    /\ last.err = "none"
    /\ last.updated = 1
    /\ last.id \in DOMAIN articles
    /\ articles[last.id].status = "draft"
    /\ last.id \notin ArticleManager_all \cup ArticleManager_detail
    /\ \E b \in ArticleManager_all \cap ArticleManager_detail : b # last.id

\* ------------------------------------------------------------ C2: ordering
\* Meta.ordering = ['-time_create', '-fixed']: row x sorts before row y
SortsBefore(x, y) ==
    \/ x.time_create > y.time_create
    \/ x.time_create = y.time_create /\ x.fixed /\ ~y.fixed

\* the sequences a query in the default ordering can return: every stored
\* article once, no row after one it sorts before (rows equal in both keys come
\* in either order)
DefaultOrderings ==
    {seq \in [1..Cardinality(DOMAIN articles) -> DOMAIN articles] :
        /\ \A i, j \in DOMAIN seq : seq[i] = seq[j] => i = j
        /\ \A i, j \in DOMAIN seq :
              i < j => ~SortsBefore(articles[seq[j]], articles[seq[i]])}

InitOrdering == InitWith({DefaultUser}, OneRootCategory)

NextOrdering ==
    \/ \E f \in BOOLEAN :
          CreateArticle("A", TypedSlug, "published", f, DefaultUser, NULL, 1)
    \/ \E a \in DOMAIN articles, f \in BOOLEAN :
          UpdateArticle(a, "A", articles[a].slug, "published", f, NULL)
    \/ \E a \in ArticleIds : DeleteArticle(a)
    \/ Tick

SpecOrdering == InitOrdering /\ [][NextOrdering]_vars

\* C2: in the default ordering every pinned article comes before every article
\* that is not pinned, whatever their creation times, and of two articles with
\* the same pinned flag the one created later comes first.
C2_PinnedFirst ==
    \A seq \in DefaultOrderings :
        \A i, j \in DOMAIN seq :
            /\ (articles[seq[i]].fixed /\ ~articles[seq[j]].fixed) => i < j
            /\ (articles[seq[i]].fixed = articles[seq[j]].fixed
                  /\ articles[seq[i]].time_create > articles[seq[j]].time_create) => i < j

\* ------------------------------------------------- C7: concurrent ratings
\* a request builds its Rating; free records that no row held the pair then
Submit(p, article, user, value, ip) ==
    /\ subs[p].pc = "idle"
    /\ subs' = [subs EXCEPT ![p] =
                   [pc |-> "pending", article |-> article, user |-> user,
                    value |-> value, ip_address |-> ip,
                    free |-> \A q \in DOMAIN ratings :
                                ~(ratings[q].article = article
                                    /\ ratings[q].ip_address = ip)]]
    /\ last' = Outcome("Rating.init", p, "none", 0, 0, FALSE)
    /\ UNCHANGED <<users, categories, articles, comments, ratings, views, clock>>

\* the request's save(): one INSERT, which the store runs atomically against
\* its constraints
Insert(p) ==
    /\ subs[p].pc = "pending"
    /\ DOMAIN ratings # RatingIds
    /\ LET r == NewId(ratings, RatingIds)
           row == [article |-> subs[p].article, user |-> subs[p].user,
                   value |-> subs[p].value, ip_address |-> subs[p].ip_address]
       IN  IF RatingRowOk(r, row)
           THEN /\ ratings' = Put(ratings, r, row)
                /\ subs' = [subs EXCEPT ![p].pc = "saved"]
                /\ last' = Outcome("Rating.save", r, "none", 0, 0, FALSE)
           ELSE /\ ratings' = ratings
                /\ subs' = [subs EXCEPT ![p].pc = "rejected"]
                /\ last' = Outcome("Rating.save", r, RatingError(row), 0, 0, FALSE)
    /\ UNCHANGED <<users, categories, articles, comments, views, clock>>

InitRace == InitSum

NextRace ==
    \/ \E p \in Procs, a \in DOMAIN articles, u \in {NULL, DefaultUser},
          v \in RatingValues, ip \in Ips : Submit(p, a, u, v, ip)
    \/ \E p \in Procs : Insert(p)

SpecRace == InitRace /\ [][NextRace]_vars

Done(p) == subs[p].pc \in {"saved", "rejected"}

\* the submissions racing with p: for the same pair, each built while no row
\* held the pair
Racing(p) ==
    {q \in Procs : /\ subs[q].pc # "idle"
                   /\ subs[q].free
                   /\ subs[q].article = subs[p].article
                   /\ subs[q].ip_address = subs[p].ip_address}

\* C7: of the submissions for one (article, ip_address) pair that were built
\* while no row held the pair, once all have been processed exactly one was
\* saved and every other one was rejected with a uniqueness violation.
C7_ExactlyOneWins ==
    \A p \in Procs :
        (subs[p].pc # "idle" /\ subs[p].free /\ \A q \in Racing(p) : Done(q)) =>
            /\ Cardinality({q \in Racing(p) : subs[q].pc = "saved"}) = 1
            /\ \A q \in Racing(p) :
                  subs[q].pc = "rejected" =>
                      ~RatingPairFree(NULL, subs[q].article, subs[q].user,
                                      subs[q].ip_address)

\* two submissions for one pair, with different users and values, raced: one
\* was saved, the other rejected
C7_Witness ==
    \E p, q \in Procs :
        /\ p # q
        /\ q \in Racing(p)
        /\ subs[p].free
        /\ subs[p].pc = "saved"
        /\ subs[q].pc = "rejected"
        /\ subs[p].user # subs[q].user
        /\ subs[p].value # subs[q].value
        /\ last.err = "UniqueViolation"

====
